---------------------------- MODULE Spec2Model ----------------------------
(***************************************************************************)
(* Master process of the benchmark harness (benchmarks/main.js): the       *)
(* operation mix, worker pool lifecycle, role assignment, job re-dispatch, *)
(* the per-second interval-stats aggregation and the exit protocol.        *)
(*                                                                         *)
(* The master is single threaded: every handler below is one atomic        *)
(* action.  The workers (worker.js) are external processes; a message from *)
(* a worker is modelled at the moment the master's handler receives it.    *)
(***************************************************************************)
EXTENDS Integers, Sequences, FiniteSets, TLC

(***************************************************************************)
(* Bounds of the model.                                                    *)
(***************************************************************************)
MaxProcs == 2
MaxQuery == 2
MaxIter == 2
MaxTicks == 1
MaxReports == 4

\* without an iteration limit the master re-dispatches for ever: a worker
\* reports a completed job only while its iteration counter is below MaxRuns
MaxRuns == 2

\* the operation mixes: argv.operations up to MaxOps, and 1000; argv.reads
\* and argv.writes up to MaxMix
MaxOps == 7
MaxMix == 7

(***************************************************************************)
(* Program constants.                                                      *)
(***************************************************************************)
OP_TYPES == 4
STATS == 3

\* JavaScript `undefined` for the optional numeric fields of config.json
Undefined == 0 - 1

VARIABLES
  config,          \* config.json as read (argv before lines 75-78)
  argv,            \* argv as used by the handlers
  pc,              \* "config", "mix": top-level script before line 64 and
                   \* before line 70; "main": spawn loop; "loop": event
                   \* loop; "exited": process.exit was called
  ROPS, WOPS,      \* read and write operations of a 'run' job
  exitCode,        \* status passed to process.exit (Undefined before)
  workers,         \* worker handles in fork order; index = cluster worker id
  online, exited, rwOnline, queryOnline, scanOnline,
  interval_stats,  \* OP_TYPES x STATS table
  counter,         \* number of times worker_results_interval was called
  timer,           \* duration timer: "none", "armed", "fired"
  ticks,           \* history: number of one-second ticks so far
  received,        \* history: number of reports folded since the last reset
  folded,          \* history: the reports folded since the last reset, in
                   \* order
  shutdown,        \* history: the calls of the duration callback, in order
  sink             \* history: calls received by stats.js and alerts.js

vars == <<config, argv, ROPS, WOPS, pc, exitCode, workers, online, exited,
          rwOnline, queryOnline, scanOnline, interval_stats, counter, timer,
          ticks, received, folded, shutdown, sink>>

(***************************************************************************)
(* Configuration (lines 35-78).                                            *)
(***************************************************************************)
\* argv.time / argv.iterations setup: a duration disables the iteration limit
ParseConfig(c) ==
  IF c.time # Undefined THEN [c EXCEPT !.iterations = Undefined] ELSE c

queryWorkers == argv.querySpec
scanWorkers == argv.scanSpec
rwWorkers == argv.processes - queryWorkers - scanWorkers

\* config.json: the fields the master's control flow reads.  With a duration
\* the iteration limit is dropped, so one configured limit is enough there.
Configs ==
  {c \in [processes : 1..MaxProcs,
          querySpec : 0..MaxQuery,  \* length of argv.querySpec (0: absent)
          scanSpec : {0, 1},        \* length of argv.scanSpec (0: absent)
          iterations : {Undefined} \cup 1..MaxIter,
          time : {Undefined, 1},
          summary : BOOLEAN,
          operations : {1000}, reads : {7}, writes : {3}] :
     c.time # Undefined => c.iterations \in {Undefined, 1}}

\* the configurations of the interval-statistics runs: read/write workers
\* only, no iteration limit
StatsConfigs ==
  {c \in Configs : /\ c.querySpec = 0 /\ c.scanSpec = 0
                   /\ c.iterations = Undefined /\ c.summary = FALSE}

(***************************************************************************)
(* JavaScript numbers (lines 64-73).  A number is an IEEE-754 binary64     *)
(* value; the ones met here are finite and positive, and are kept as       *)
(* [m, e] for m * 2^e with m a natural number of exactly 53 bits.  A       *)
(* natural number is written as its sequence of digits to base 2^15,       *)
(* lowest first, the highest not 0.  Every operation computes the exact    *)
(* result and rounds it to nearest, ties to even.                          *)
(***************************************************************************)
Base == 2^15

RECURSIVE Digits(_)
Digits(n) == IF n = 0 THEN <<>> ELSE <<n % Base>> \o Digits(n \div Base)

\* without the zeros above the highest digit
RECURSIVE Strip(_)
Strip(x) ==
  IF x = <<>> \/ x[Len(x)] # 0 THEN x ELSE Strip(SubSeq(x, 1, Len(x) - 1))

Digit(x, i) == IF i <= Len(x) THEN x[i] ELSE 0

RECURSIVE AddFrom(_, _, _, _)
AddFrom(x, y, i, c) ==
  IF i > Len(x) /\ i > Len(y) THEN Digits(c)
  ELSE <<(Digit(x, i) + Digit(y, i) + c) % Base>>
         \o AddFrom(x, y, i + 1, (Digit(x, i) + Digit(y, i) + c) \div Base)

DigitsAdd(x, y) == AddFrom(x, y, 1, 0)

\* x - y for x >= y
RECURSIVE SubFrom(_, _, _, _)
SubFrom(x, y, i, b) ==
  IF i > Len(x) THEN <<>>
  ELSE <<(x[i] - Digit(y, i) - b) % Base>>
         \o SubFrom(x, y, i + 1, IF x[i] - Digit(y, i) - b < 0 THEN 1 ELSE 0)

DigitsSub(x, y) == Strip(SubFrom(x, y, 1, 0))

\* x * k for a natural k < Base
RECURSIVE MulFrom(_, _, _, _)
MulFrom(x, k, i, c) ==
  IF i > Len(x) THEN Digits(c)
  ELSE <<(x[i] * k + c) % Base>>
         \o MulFrom(x, k, i + 1, (x[i] * k + c) \div Base)

DigitsMul(x, k) == Strip(MulFrom(x, k, 1, 0))

\* long division of the digits i..1 of x by d, 0 < d <= Base, with r carried
\* in from the digits above: quotient digits and remainder
RECURSIVE DivFrom(_, _, _, _)
DivFrom(x, d, i, r) ==
  IF i = 0 THEN [q |-> <<>>, r |-> r]
  ELSE LET rest == DivFrom(x, d, i - 1, (r * Base + x[i]) % d)
       IN [q |-> Append(rest.q, (r * Base + x[i]) \div d), r |-> rest.r]

DigitsLess(x, y) ==
  \/ Len(x) < Len(y)
  \/ /\ Len(x) = Len(y)
     /\ \E i \in 1..Len(x) :
          x[i] < y[i] /\ \A j \in (i + 1)..Len(x) : x[j] = y[j]

\* number of bits of x
BitLen(x) ==
  IF x = <<>> THEN 0
  ELSE 15 * (Len(x) - 1)
         + (CHOOSE k \in 1..15 : 2^(k - 1) <= x[Len(x)] /\ x[Len(x)] < 2^k)

\* x * 2^k
ShiftLeft(x, k) == DigitsMul([i \in 1..(k \div 15) |-> 0] \o x, 2^(k % 15))

\* x div 2^k, and whether a 1 bit was dropped
ShiftRight(x, k) ==
  LET kept == SubSeq(x, (k \div 15) + 1, Len(x))
      qr == DivFrom(kept, 2^(k % 15), Len(kept), 0)
  IN [q |-> Strip(qr.q),
      lost |-> qr.r # 0 \/ \E i \in 1..(k \div 15) : Digit(x, i) # 0]

\* m * 2^e, plus a positive amount below 2^e if lost, rounded to 53
\* significant bits, to nearest, ties to even (m > 0)
Round(m, e, lost) ==
  IF BitLen(m) <= 53
    THEN [m |-> ShiftLeft(m, 53 - BitLen(m)), e |-> e - (53 - BitLen(m))]
  ELSE LET s == BitLen(m) - 53
           h == ShiftRight(m, s - 1)
           q == ShiftRight(h.q, 1).q
           up == /\ h.q[1] % 2 = 1
                 /\ h.lost \/ lost \/ q[1] % 2 = 1
           r == IF up THEN DigitsAdd(q, <<1>>) ELSE q
       IN IF BitLen(r) > 53 THEN [m |-> ShiftRight(r, 1).q, e |-> e + s + 1]
          ELSE [m |-> r, e |-> e + s]

Min(a, b) == IF a < b THEN a ELSE b

\* a and b written with the same exponent
Aligned(a, b) ==
  [a |-> ShiftLeft(a.m, a.e - Min(a.e, b.e)),
   b |-> ShiftLeft(b.m, b.e - Min(a.e, b.e)),
   e |-> Min(a.e, b.e)]

\* the number of a positive integer literal or config value
Num(n) == Round(Digits(n), 0, FALSE)

NumAdd(a, b) ==
  LET ab == Aligned(a, b) IN Round(DigitsAdd(ab.a, ab.b), ab.e, FALSE)

\* a - b for a > b
NumSub(a, b) ==
  LET ab == Aligned(a, b) IN Round(DigitsSub(ab.a, ab.b), ab.e, FALSE)

NumLess(a, b) == LET ab == Aligned(a, b) IN DigitsLess(ab.a, ab.b)

\* a * k for an integer 0 < k < Base
NumMul(a, k) == Round(DigitsMul(a.m, k), a.e, FALSE)

\* a / d for an integer 0 < d < Base: the quotient to 75 more bits than a
\* has, and whether the division left a remainder
NumDiv(a, d) ==
  LET n == ShiftLeft(a.m, 75)
      qr == DivFrom(n, d, Len(n), 0)
  IN Round(Strip(qr.q), a.e - 75, qr.r # 0)

\* the configurations of the operation-mix runs: one worker, every mix
OpsConfigs ==
  [processes : {1}, querySpec : {0}, scanSpec : {0},
   iterations : {Undefined}, time : {Undefined}, summary : {FALSE},
   operations : (1..MaxOps) \cup {1000}, reads : 1..MaxMix,
   writes : 1..MaxMix]

(***************************************************************************)
(* Operation mix (lines 64-73).                                            *)
(***************************************************************************)
\* a global declared with var and not yet assigned
Unset == [m |-> <<>>, e |-> 0]

FOPS(c) == NumDiv(Num(c.operations), c.reads + c.writes)

\* lines 65-66
Mix(c) ==
  [ROPS |-> NumMul(FOPS(c), c.reads), WOPS |-> NumMul(FOPS(c), c.writes)]

DOPS(c, mix) == NumSub(Num(c.operations), NumAdd(mix.ROPS, mix.WOPS))

\* lines 70-73
Routed(c, mix) ==
  IF NumLess(NumAdd(mix.ROPS, mix.WOPS), Num(c.operations))
    THEN [mix EXCEPT !.ROPS = NumAdd(mix.ROPS, DOPS(c, mix))]
    ELSE mix

(***************************************************************************)
(* Interval table.                                                         *)
(***************************************************************************)
ZeroRow == [j \in 1..STATS |-> 0]
ZeroTable == [i \in 1..OP_TYPES |-> ZeroRow]

\* reset_interval_stats
reset_interval_stats == ZeroTable

\* interval reports a worker may send
Reports ==
  { [ZeroTable EXCEPT ![1] = <<10, 0, 0>>],
    [ZeroTable EXCEPT ![1] = <<15, 1, 0>>] }

\* a wider choice, for the runs that only fold
FoldReports ==
  Reports \cup { [ZeroTable EXCEPT ![2] = <<7, 0, 2>>, ![3] = <<1, 1, 0>>] }

\* the double loop of worker_results_interval
FoldOverwrite(table, report) ==
  [i \in 1..OP_TYPES |-> [j \in 1..STATS |-> report[i][j]]]

Fold(table, report) ==
  [i \in 1..OP_TYPES |-> [j \in 1..STATS |-> table[i][j] + report[i][j]]]

\* the flush condition of worker_results_interval, on the incremented counter
FlushDuePostIncrement(c) == (c - 1) % argv.processes = 0

FlushDue(c) == c % argv.processes = 0

(***************************************************************************)
(* Worker handles.                                                         *)
(***************************************************************************)
NewWorker ==
  [state |-> "forked",     \* "forked", "online", "exited"
   status |-> Undefined,   \* exit status once exited
   iteration |-> 0,        \* worker.iteration
   role |-> "None",        \* job builder used at the online event
   qid |-> Undefined,      \* index into argv.querySpec of a Query worker
   inflight |-> 0,         \* jobs received and not yet reported
   probes |-> 0,           \* 'trans' probes received and not yet answered
   sentRun |-> 0, sentQuery |-> 0, sentTrans |-> 0, sentEnd |-> 0]

Ids == 1..Len(workers)

\* the messages sent to a worker so far, per tag
Sent(h) == <<h.sentRun, h.sentQuery, h.sentTrans, h.sentEnd>>

\* cluster.workers: forked and not yet exited
Live(ws) == {w \in 1..Len(ws) : ws[w].state \in {"forked", "online"}}

\* worker.send(['end']) to w
worker_kill(ws, w) ==
  [ws EXCEPT ![w].sentEnd = @ + 1, ![w].state = "exited"]

worker_exit(ws, w) == [ws EXCEPT ![w].sentEnd = @ + 1]

\* worker_shutdown: 'end' to every worker of cluster.workers
worker_shutdown(ws) ==
  [w \in 1..Len(ws) |-> IF w \in Live(ws) THEN worker_exit(ws, w)[w] ELSE ws[w]]

\* worker_probe: 'trans' to every worker of cluster.workers
worker_probe(ws) ==
  [w \in 1..Len(ws) |->
     IF w \in Live(ws)
       THEN [ws[w] EXCEPT !.probes = @ + 1, !.sentTrans = @ + 1]
       ELSE ws[w]]

\* rwWorkerJob: worker.iteration++ and send ['run', option]
rwWorkerJob(ws, w) ==
  [ws EXCEPT ![w].iteration = @ + 1, ![w].inflight = @ + 1,
             ![w].sentRun = @ + 1]

\* queryWorkerJob: send ['query', options] built from argv.querySpec[id]
queryWorkerJob(ws, w, id) ==
  [ws EXCEPT ![w].qid = id, ![w].inflight = @ + 1, ![w].sentQuery = @ + 1]

\* scanWorkerJob: send ['query', options] built from argv.scanSpec
scanWorkerJob(ws, w) ==
  [ws EXCEPT ![w].inflight = @ + 1, ![w].sentQuery = @ + 1]

\* the handle of a worker whose process has ended with status 0: it leaves
\* cluster.workers and no handler reaches it again
Retired(ws, w) ==
  [ws EXCEPT ![w] = [NewWorker EXCEPT !.state = "exited", !.status = 0,
                                      !.role = ws[w].role, !.qid = ws[w].qid]]

(***************************************************************************)
(* stats.js / alerts.js: the calls they have received.                     *)
(***************************************************************************)
NoCalls == [stop |-> 0, report_final |-> 0, interval |-> 0, alert |-> <<>>]

\* finalize
finalizeAnyPool(k) ==
  [k EXCEPT !.stop = @ + 1,
            !.report_final = IF argv.summary = TRUE THEN @ + 1 ELSE @]

finalize(k) ==
  [k EXCEPT !.stop = @ + 1,
            !.report_final = IF argv.summary = TRUE /\ rwWorkers > 0
                               THEN @ + 1 ELSE @]

\* process.on('exit'), with the values of exited and online at that moment
process_on_exit(k, ex, on) == IF ex = on THEN finalize(k) ELSE k

(***************************************************************************)
(* Initial state: config.json read, globals set (lines 32-81), timers not  *)
(* yet run, no worker forked.                                              *)
(***************************************************************************)
InitWith(cs) ==
  /\ config \in cs
  /\ argv = ParseConfig(config)
  /\ ROPS = Routed(config, Mix(config)).ROPS
  /\ WOPS = Routed(config, Mix(config)).WOPS
  /\ pc = "main"
  /\ exitCode = Undefined
  /\ workers = <<>>
  /\ online = 0 /\ exited = 0
  /\ rwOnline = 0 /\ queryOnline = 0 /\ scanOnline = 0
  /\ interval_stats = reset_interval_stats
  /\ counter = 0
  /\ timer = IF ParseConfig(config).time # Undefined THEN "armed" ELSE "none"
  /\ ticks = 0
  /\ received = 0
  /\ folded = <<>>
  /\ shutdown = <<>>
  /\ sink = NoCalls

Init == InitWith(Configs)

(***************************************************************************)
(* Top-level script: the spawn loop (lines 329-332).                       *)
(***************************************************************************)
\* worker_spawn: cluster.fork(), worker.iteration = 0
worker_spawn ==
  /\ pc = "main"
  /\ Len(workers) < argv.processes
  /\ workers' = Append(workers, NewWorker)
  /\ pc' = IF Len(workers) + 1 < argv.processes THEN "main" ELSE "loop"
  /\ UNCHANGED <<config, argv, ROPS, WOPS, exitCode, online, exited,
                 rwOnline, queryOnline, scanOnline, interval_stats, counter,
                 timer, ticks, received, folded, shutdown, sink>>

(***************************************************************************)
(* cluster.on('online') (lines 280-292).                                   *)
(***************************************************************************)
\* the if / else-if chain: which job builder the next online worker gets
RoleQueryFirst(rwO, qO, sO) ==
  IF qO < queryWorkers THEN "Query"
  ELSE IF rwO < rwWorkers THEN "ReadWrite"
  ELSE IF sO < scanWorkers THEN "Scan"
  ELSE "None"

RoleAtInclusive(rwO, qO, sO) ==
  IF rwO <= rwWorkers THEN "ReadWrite"
  ELSE IF qO < queryWorkers THEN "Query"
  ELSE IF sO < scanWorkers THEN "Scan"
  ELSE "None"

RoleAt(rwO, qO, sO) ==
  IF rwO < rwWorkers THEN "ReadWrite"
  ELSE IF qO < queryWorkers THEN "Query"
  ELSE IF sO < scanWorkers THEN "Scan"
  ELSE "None"

cluster_on_online(w) ==
  /\ pc = "loop"
  /\ workers[w].state = "forked"
  /\ LET role == RoleAt(rwOnline, queryOnline, scanOnline)
         up == [workers EXCEPT ![w].state = "online", ![w].role = role]
     IN /\ online' = online + 1
        /\ rwOnline' = IF role = "ReadWrite" THEN rwOnline + 1 ELSE rwOnline
        /\ queryOnline' = IF role = "Query" THEN queryOnline + 1
                          ELSE queryOnline
        /\ scanOnline' = IF role = "Scan" THEN scanOnline + 1 ELSE scanOnline
        /\ workers' = CASE role = "ReadWrite" -> rwWorkerJob(up, w)
                        [] role = "Query" -> queryWorkerJob(up, w, queryOnline)
                        [] role = "Scan" -> scanWorkerJob(up, w)
                        [] OTHER -> up
  /\ UNCHANGED <<config, argv, ROPS, WOPS, pc, exitCode, exited,
                 interval_stats, counter, timer, ticks, received, folded,
                 shutdown, sink>>

(***************************************************************************)
(* cluster.on('exit') (lines 298-310).                                     *)
(***************************************************************************)
\* what the listener does with the exit status: the new exited count and the
\* status of process.exit, Undefined when the master goes on
ExitCounted(code) ==
  [exited |-> exited + 1,
   exit |-> IF exited + 1 = online THEN 0 ELSE Undefined]

ExitOutcome(code) ==
  IF code # 0
    THEN [exited |-> exited, exit |-> 1]
    ELSE [exited |-> exited + 1,
          exit |-> IF exited + 1 = online THEN 0 ELSE Undefined]

cluster_on_exit(w, code) ==
  /\ pc = "loop"
  /\ workers[w].state \in {"forked", "online"}
  \* a worker that ends with status 0 has started, i.e. has come online
  /\ code = 0 => workers[w].state = "online"
  /\ workers' = IF code = 0 THEN Retired(workers, w)
                ELSE [workers EXCEPT ![w].state = "exited", ![w].status = code]
  /\ LET out == ExitOutcome(code)
     IN /\ exited' = out.exited
        /\ IF out.exit # Undefined
             THEN \* process.exit(status): 'exit' listeners, then the end
                  /\ pc' = "exited"
                  /\ exitCode' = out.exit
                  /\ sink' = process_on_exit(sink, out.exited, online)
             ELSE UNCHANGED <<pc, exitCode, sink>>
  /\ UNCHANGED <<config, argv, ROPS, WOPS, online, rwOnline, queryOnline,
                 scanOnline, interval_stats, counter, timer, ticks, received,
                 folded, shutdown>>

(***************************************************************************)
(* worker.on('message'): worker_results (lines 175-234).                   *)
(***************************************************************************)
\* the continuation rule of worker_results_iteration
ContinueInclusive(h) ==
  \/ argv.iterations = Undefined
  \/ h.iteration <= argv.iterations
  \/ argv.time # Undefined

Continue(h) ==
  \/ argv.iterations = Undefined
  \/ h.iteration < argv.iterations
  \/ argv.time # Undefined

\* message ['stats', op_stats]: the worker reports a completed job
worker_results_iteration(w) ==
  /\ pc = "loop"
  /\ workers[w].state = "online"
  /\ workers[w].inflight > 0
  /\ argv.iterations = Undefined => workers[w].iteration < MaxRuns
  /\ LET got == [workers EXCEPT ![w].inflight = @ - 1]
     IN workers' = IF Continue(workers[w]) THEN rwWorkerJob(got, w)
                   ELSE worker_exit(got, w)
  /\ UNCHANGED <<config, argv, ROPS, WOPS, pc, exitCode, online, exited,
                 rwOnline, queryOnline, scanOnline, interval_stats, counter,
                 timer, ticks, received, folded, shutdown, sink>>

\* message ['alert', {alert, severity}]
Alerts == {<<"latency", 2>>}

worker_results_alert_counted(w, a) ==
  /\ pc = "loop"
  /\ workers[w].state = "online"
  /\ sink' = [sink EXCEPT !.alert = a]
  /\ counter' = counter + 1
  /\ UNCHANGED <<config, argv, ROPS, WOPS, pc, exitCode, workers, online,
                 exited, rwOnline, queryOnline, scanOnline, interval_stats,
                 timer, ticks, received, folded, shutdown>>

worker_results_alert(w, a) ==
  /\ pc = "loop"
  /\ workers[w].state = "online"
  /\ sink' = [sink EXCEPT !.alert = a]
  /\ UNCHANGED <<config, argv, ROPS, WOPS, pc, exitCode, workers, online,
                 exited, rwOnline, queryOnline, scanOnline, interval_stats,
                 counter, timer, ticks, received, folded, shutdown>>

\* any other message: the worker's answer to a 'trans' probe
worker_results_interval(w, report) ==
  /\ pc = "loop"
  /\ workers[w].state = "online"
  /\ workers[w].probes > 0
  /\ workers' = [workers EXCEPT ![w].probes = @ - 1]
  /\ interval_stats' = Fold(interval_stats, report)
  /\ counter' = counter + 1
  /\ received' = received + 1
  /\ folded' = Append(folded, report)
  /\ sink' = IF FlushDue(counter + 1) THEN [sink EXCEPT !.interval = @ + 1]
             ELSE sink
  /\ UNCHANGED <<config, argv, ROPS, WOPS, pc, exitCode, online, exited,
                 rwOnline, queryOnline, scanOnline, timer, ticks, shutdown>>

(***************************************************************************)
(* Timers.                                                                 *)
(***************************************************************************)
\* setInterval callback (lines 249-252)
TickWithoutReset ==
  /\ pc = "loop"
  /\ ticks < MaxTicks
  /\ ticks' = ticks + 1
  /\ received' = 0
  /\ folded' = <<>>
  /\ workers' = worker_probe(workers)
  /\ UNCHANGED <<config, argv, ROPS, WOPS, pc, exitCode, online, exited,
                 rwOnline, queryOnline, scanOnline, interval_stats, counter,
                 timer, shutdown, sink>>

Tick ==
  /\ pc = "loop"
  /\ ticks < MaxTicks
  /\ ticks' = ticks + 1
  /\ interval_stats' = reset_interval_stats
  /\ received' = 0
  /\ folded' = <<>>
  /\ workers' = worker_probe(workers)
  /\ UNCHANGED <<config, argv, ROPS, WOPS, pc, exitCode, online, exited,
                 rwOnline, queryOnline, scanOnline, counter, timer, shutdown,
                 sink>>

\* setTimeout callback (lines 316-322): the three calls, in program order,
\* each with the workers it addresses
Step(op, to) == [op |-> op, to |-> to]

ShutdownFirst(ws) ==
  [ws |-> worker_probe(worker_shutdown(ws)),
   log |-> <<Step("reset_interval_stats", {}),
             Step("worker_shutdown", Live(ws)),
             Step("worker_probe", Live(ws))>>]

DurationCallback(ws) ==
  [ws |-> worker_shutdown(worker_probe(ws)),
   log |-> <<Step("reset_interval_stats", {}),
             Step("worker_probe", Live(ws)),
             Step("worker_shutdown", Live(ws))>>]

DurationTimeout ==
  /\ pc = "loop"
  /\ timer = "armed"
  /\ timer' = "fired"
  /\ interval_stats' = reset_interval_stats
  /\ received' = 0
  /\ workers' = DurationCallback(workers).ws
  /\ shutdown' = shutdown \o DurationCallback(workers).log
  /\ folded' = <<>>
  /\ UNCHANGED <<config, argv, ROPS, WOPS, pc, exitCode, online, exited,
                 rwOnline, queryOnline, scanOnline, counter, ticks, sink>>

(***************************************************************************)
(* Specifications.                                                         *)
(*                                                                         *)
(* Spec: the job and exit protocol.  Workers come online, complete jobs,   *)
(* raise alerts and exit; the timers fire; no worker answers a probe.      *)
(*                                                                         *)
(* SpecStats: the interval statistics.  Workers come online, answer the    *)
(* probes and exit; the timers fire; no job completes.                     *)
(*                                                                         *)
(* SpecFold: the fold of worker_results_interval alone, on sequences of    *)
(* up to MaxReports reports.                                               *)
(*                                                                         *)
(* SpecOps and SpecLive are given further down.                            *)
(***************************************************************************)
Next ==
  \/ worker_spawn
  \/ \E w \in Ids : cluster_on_online(w)
  \/ \E w \in Ids : \E code \in {0, 1} : cluster_on_exit(w, code)
  \/ \E w \in Ids : worker_results_iteration(w)
  \/ \E w \in Ids : \E a \in Alerts : worker_results_alert(w, a)
  \/ Tick
  \/ DurationTimeout

Spec == Init /\ [][Next]_vars

InitStats == InitWith(StatsConfigs)

NextStats ==
  \/ worker_spawn
  \/ \E w \in Ids : cluster_on_online(w)
  \/ \E w \in Ids : \E code \in {0, 1} : cluster_on_exit(w, code)
  \/ \E w \in Ids : \E r \in Reports : worker_results_interval(w, r)
  \/ Tick
  \/ DurationTimeout

SpecStats == InitStats /\ [][NextStats]_vars

\* one pass of the fold on report r, as worker_results_interval makes it
FoldReport(r) ==
  /\ Len(folded) < MaxReports
  /\ interval_stats' = Fold(interval_stats, r)
  /\ folded' = Append(folded, r)
  /\ UNCHANGED <<config, argv, ROPS, WOPS, pc, exitCode, workers, online,
                 exited, rwOnline, queryOnline, scanOnline, counter, timer,
                 ticks, received, shutdown, sink>>

NextFold == \E r \in FoldReports : FoldReport(r)

SpecFold == InitStats /\ [][NextFold]_vars

(***************************************************************************)
(* SpecOps: the top-level script from line 64 to line 73, on every         *)
(* operation mix of OpsConfigs.                                            *)
(***************************************************************************)
InitOps ==
  /\ config \in OpsConfigs
  /\ argv = config
  /\ ROPS = Unset /\ WOPS = Unset
  /\ pc = "config"
  /\ exitCode = Undefined
  /\ workers = <<>>
  /\ online = 0 /\ exited = 0
  /\ rwOnline = 0 /\ queryOnline = 0 /\ scanOnline = 0
  /\ interval_stats = reset_interval_stats
  /\ counter = 0
  /\ timer = "none"
  /\ ticks = 0
  /\ received = 0
  /\ folded = <<>>
  /\ shutdown = <<>>
  /\ sink = NoCalls

\* lines 64-66
ComputeOps ==
  /\ pc = "config"
  /\ ROPS' = Mix(argv).ROPS
  /\ WOPS' = Mix(argv).WOPS
  /\ pc' = "mix"
  /\ UNCHANGED <<config, argv, exitCode, workers, online, exited, rwOnline,
                 queryOnline, scanOnline, interval_stats, counter, timer,
                 ticks, received, folded, shutdown, sink>>

\* lines 70-73
RouteShortfall ==
  /\ pc = "mix"
  /\ ROPS' = Routed(argv, [ROPS |-> ROPS, WOPS |-> WOPS]).ROPS
  /\ pc' = "main"
  /\ UNCHANGED <<config, argv, WOPS, exitCode, workers, online, exited,
                 rwOnline, queryOnline, scanOnline, interval_stats, counter,
                 timer, ticks, received, folded, shutdown, sink>>

NextOps == ComputeOps \/ RouteShortfall

SpecOps == InitOps /\ [][NextOps]_vars

(***************************************************************************)
(* SpecLive: runs with cooperative workers, in iteration-limit mode or     *)
(* duration mode.  Every worker comes online, reports every job it was     *)
(* sent, and exits with status 0 once it has been sent 'end'; no worker    *)
(* faults.  The event loop runs a handler whenever an event is pending,    *)
(* and an armed timer fires: weak fairness of the next-state relation.     *)
(***************************************************************************)
LiveConfigs ==
  {c \in Configs : c.iterations # Undefined \/ c.time # Undefined}

InitLive == InitWith(LiveConfigs)

\* cluster.on('exit') for a worker that ends by itself after its 'end'
CooperativeExit(w) ==
  /\ workers[w].sentEnd > 0
  /\ cluster_on_exit(w, 0)

NextLive ==
  \/ worker_spawn
  \/ \E w \in Ids : cluster_on_online(w)
  \/ \E w \in Ids : worker_results_iteration(w)
  \/ \E w \in Ids : CooperativeExit(w)
  \/ DurationTimeout

SpecLive == InitLive /\ [][NextLive]_vars /\ WF_vars(NextLive)

(***************************************************************************)
(* Properties.                                                             *)
(***************************************************************************)
SameSent == \A v \in Ids : Sent(workers'[v]) = Sent(workers[v])

Faulted(h) == h.state = "exited" /\ h.status # 0

\* C1: when a worker's exit event carries a non-zero status, the master
\* calls process.exit(1) in that same handler, the handler sends nothing, and
\* once the process has exited no message is sent to any worker.
C1_FaultExitsWithOne ==
  [][ /\ \A w \in Ids :
           (workers[w].state # "exited" /\ Faulted(workers'[w]))
             => (pc' = "exited" /\ exitCode' = 1 /\ SameSent)
      /\ pc = "exited" => (pc' = "exited" /\ SameSent) ]_vars

\* a worker has faulted while another one is still running
C1_Witness ==
  /\ pc = "exited" /\ exitCode = 1
  /\ \E w \in Ids : \E v \in Ids :
       /\ Faulted(workers[w])
       /\ workers[v].state = "online" /\ workers[v].inflight > 0

AllExitedOK ==
  /\ Len(workers) = argv.processes
  /\ \A w \in Ids : workers[w].state = "exited" /\ workers[w].status = 0

\* C2: when every worker has exited with status 0 the master has exited with
\* status 0, and stats.report_final was called once if summary is set and
\* rwWorkers > 0, and not at all otherwise.
C2_CleanExitReportsOnce ==
  AllExitedOK =>
    /\ pc = "exited" /\ exitCode = 0
    /\ sink.stop = 1
    /\ sink.report_final = IF argv.summary /\ rwWorkers > 0 THEN 1 ELSE 0

C2_Witness ==
  /\ AllExitedOK /\ argv.processes > 1
  /\ sink.report_final = 1

\* C3: the master exits with status 0 only when all argv.processes workers
\* have exited with status 0.
C3_ExitZeroOnlyWhenAllExited ==
  (pc = "exited" /\ exitCode = 0) => AllExitedOK

IterationMode == argv.time = Undefined /\ argv.iterations # Undefined

\* C4: in iteration-limit mode a running ReadWrite worker has been sent at
\* most L 'run' messages and at most one 'end'; the 'end' is sent exactly
\* when the report of its L-th job has been handled, and no 'run' follows.
C4_IterationLimit ==
  IterationMode =>
    \A w \in Ids :
      (workers[w].state = "online" /\ workers[w].role = "ReadWrite") =>
        /\ workers[w].sentRun <= argv.iterations
        /\ workers[w].sentEnd <= 1
        /\ workers[w].sentEnd = 1 <=>
             (workers[w].sentRun = argv.iterations /\ workers[w].inflight = 0)

C4_Witness ==
  /\ IterationMode /\ argv.iterations > 1
  /\ \E w \in Ids :
       /\ workers[w].state = "online" /\ workers[w].role = "ReadWrite"
       /\ workers[w].sentRun = argv.iterations /\ workers[w].sentEnd = 1

\* C5: in duration mode a completion report handled before the timer fires
\* always gets a new 'run', whatever the iteration counter and the configured
\* limit; the timer fires once, and its callback resets the table, then sends
\* 'trans' to every live worker, then 'end' to every live worker.
C5_DurationMode ==
  [][ argv.time # Undefined =>
        /\ \A w \in Ids :
             (timer = "armed" /\ worker_results_iteration(w)) =>
               /\ workers'[w].sentRun = workers[w].sentRun + 1
               /\ workers'[w].sentEnd = workers[w].sentEnd
        /\ DurationTimeout =>
             /\ interval_stats' = ZeroTable
             /\ shutdown' = <<Step("reset_interval_stats", {}),
                              Step("worker_probe", Live(workers)),
                              Step("worker_shutdown", Live(workers))>>
             /\ \A w \in Live(workers) :
                  /\ workers'[w].sentTrans = workers[w].sentTrans + 1
                  /\ workers'[w].sentEnd = workers[w].sentEnd + 1
        /\ timer = "fired" => (timer' = "fired" /\ shutdown' = shutdown) ]_vars

\* the timer has fired on two live workers, in a run whose configured limit
\* of one iteration a worker has exceeded
C5_Witness ==
  /\ config.iterations = 1 /\ timer = "fired"
  /\ Len(shutdown) = 3 /\ Cardinality(shutdown[3].to) > 1
  /\ \E w \in Ids : workers[w].sentRun > 1 /\ workers[w].sentEnd = 1

Flushed == sink'.interval # sink.interval

\* C6: stats.interval is called in a step if and only if the step folds an
\* interval report and the number of reports folded since the last reset then
\* equals the number of live workers.
C6_FlushIffAllLiveReported ==
  [][ Flushed <=>
        /\ \E w \in Ids : \E r \in Reports : worker_results_interval(w, r)
        /\ received' = Cardinality(Live(workers')) ]_vars

RECURSIVE FoldAll(_, _)
FoldAll(table, reports) ==
  IF reports = <<>> THEN table
  ELSE FoldAll(Fold(table, Head(reports)), Tail(reports))

Permuted(seq, p) == [k \in 1..Len(seq) |-> seq[p[k]]]

\* C8: the table is the same for every order of arrival of the reports
\* folded since the last reset, and folding a prefix and a suffix separately
\* and then together gives it too; [10,0,0] and [15,1,0] give [25,1,0].
C8_FoldCommutes ==
  /\ \A p \in Permutations(1..Len(folded)) :
       FoldAll(ZeroTable, Permuted(folded, p)) = interval_stats
  /\ \A n \in 0..Len(folded) :
       Fold(FoldAll(ZeroTable, SubSeq(folded, 1, n)),
            FoldAll(ZeroTable, SubSeq(folded, n + 1, Len(folded))))
         = interval_stats
  /\ \A a \in 1..Len(folded) : \A b \in 1..Len(folded) :
       (Len(folded) = 2 /\ a # b /\ folded[a][1] = <<10, 0, 0>>
          /\ folded[b][1] = <<15, 1, 0>>)
         => interval_stats[1] = <<25, 1, 0>>

C8_Witness ==
  /\ Len(folded) = 2
  /\ folded[1][1] = <<15, 1, 0>> /\ folded[2][1] = <<10, 0, 0>>
  /\ interval_stats[1] = <<25, 1, 0>>

\* C9: with a negative read/write worker count no worker is ever forked and
\* no job is ever dispatched.
C9_NegativeCountFailsFast ==
  rwWorkers < 0 =>
    /\ workers = <<>>
    /\ pc = "exited" => exitCode = 1

Max(a, b) == IF a > b THEN a ELSE b

\* C10: the k-th online event (k from 0) gets ReadWrite and a 'run' if
\* k < rwWorkers, Query with query spec k - rwWorkers and a 'query' if it is
\* among the next queryWorkers, and Scan and a 'query' otherwise; a role is
\* only ever assigned by the worker's own online event, to a worker that has
\* none.
C10_RolePriority ==
  [][ \A w \in Ids :
        /\ cluster_on_online(w) =>
             LET k == online
                 rw == Max(rwWorkers, 0)
                 h == workers'[w]
                 old == workers[w]
                 run == <<1, 0, old.sentTrans, old.sentEnd>>
                 query == <<0, 1, old.sentTrans, old.sentEnd>>
             IN /\ old.role = "None"
                /\ k < rw => (h.role = "ReadWrite" /\ Sent(h) = run)
                /\ (rw <= k /\ k < rw + queryWorkers) =>
                     (h.role = "Query" /\ h.qid = k - rw /\ Sent(h) = query)
                /\ rw + queryWorkers <= k =>
                     (h.role = "Scan" /\ Sent(h) = query)
                /\ \A v \in Ids \ {w} : workers'[v] = workers[v]
        /\ workers'[w].role # workers[w].role =>
             (workers[w].role = "None" /\ cluster_on_online(w)) ]_vars

C10_Witness ==
  \E v \in Ids : \E w \in Ids :
    /\ workers[v].role = "ReadWrite" /\ workers[v].sentRun > 0
    /\ workers[w].role = "Query" /\ workers[w].qid = 0
    /\ workers[w].sentQuery = 1

\* C11: whenever rwWorkers >= 0 the three worker counts add up to
\* argv.processes, no role has more online workers than its count, and the
\* three online counts add up to online, which is at most argv.processes.
C11_WorkerCounts ==
  rwWorkers >= 0 =>
    /\ rwWorkers + queryWorkers + scanWorkers = argv.processes
    /\ rwOnline <= rwWorkers
    /\ queryOnline <= queryWorkers
    /\ scanOnline <= scanWorkers
    /\ rwOnline + queryOnline + scanOnline = online
    /\ online <= argv.processes

\* every worker of a mixed pool is online, one per role
C11_Witness ==
  /\ rwWorkers >= 0 /\ online = argv.processes /\ online > 1
  /\ rwOnline = 1 /\ queryOnline + scanOnline = 1

\* C12: a worker with the Query or Scan role has been sent exactly one job,
\* its 'query', and never a 'run', whatever it has reported since.
C12_QueryScanOneJob ==
  \A w \in Ids :
    (workers[w].state = "online" /\ workers[w].role \in {"Query", "Scan"}) =>
      (workers[w].sentQuery = 1 /\ workers[w].sentRun = 0)

\* C13: when the master has exited with status 1 after a worker fault,
\* finalize has run: stats.stop was called.
C13_FaultExitFinalizes ==
  (pc = "exited" /\ exitCode = 1) => sink.stop = 1

\* C14: the master never ends a worker: a worker's state changes only in its
\* own online or exit event, so sending 'end' (worker_exit, worker_shutdown)
\* leaves the worker running; and the master exits only when a worker has
\* faulted or no online worker is left, so an online worker that never exits
\* keeps the master from exiting as long as no worker faults.
C14_CooperativeShutdown ==
  [][ /\ \A w \in Ids :
           workers'[w].state # workers[w].state =>
             \/ cluster_on_online(w)
             \/ \E code \in {0, 1} : cluster_on_exit(w, code)
      /\ \A w \in Ids :
           workers'[w].sentEnd > workers[w].sentEnd =>
             workers'[w].state = workers[w].state
      /\ pc' = "exited" =>
           \/ \E w \in Ids : Faulted(workers'[w])
           \/ \A w \in Ids : workers'[w].state # "online" ]_vars

\* one worker has exited after its 'end', the other was sent 'end' too and
\* is still running: the master waits
C14_Witness ==
  /\ pc = "loop" /\ exited = 1
  /\ \E w \in Ids : workers[w].state = "online" /\ workers[w].sentEnd > 0

\* C15: the handler of an 'alert' message passes the alert's name and
\* severity to alerts.handleAlert and changes nothing else: table, report
\* counters, worker handles (iteration counters, messages sent), online and
\* exited counts and the master's position are as before; and alerts reach
\* alerts.handleAlert in no other step.
C15_AlertForwardedOnly ==
  [][ /\ \A w \in Ids : \A a \in Alerts :
           worker_results_alert(w, a) =>
             /\ sink'.alert = a
             /\ [sink' EXCEPT !.alert = sink.alert] = sink
             /\ interval_stats' = interval_stats
             /\ counter' = counter /\ received' = received
             /\ workers' = workers
             /\ online' = online /\ exited' = exited
             /\ pc' = pc /\ exitCode' = exitCode /\ timer' = timer
      /\ sink'.alert # sink.alert =>
           \E w \in Ids : \E a \in Alerts : worker_results_alert(w, a) ]_vars

\* an alert was forwarded while a job was in flight and the master goes on
C15_Witness ==
  /\ pc = "loop" /\ sink.alert = <<"latency", 2>>
  /\ \E w \in Ids : workers[w].inflight > 0 /\ workers[w].iteration > 1

\* C17: once the mix is computed, ROPS + WOPS is argv.operations, WOPS is
\* argv.operations * argv.writes / (argv.reads + argv.writes), the shortfall
\* routing has left WOPS as computed, and 1000 operations at 7 reads to 3
\* writes give ROPS = 700 and WOPS = 300.
C17_OpMixExact ==
  pc = "main" =>
    /\ NumAdd(ROPS, WOPS) = Num(argv.operations)
    /\ WOPS = NumDiv(Num(argv.operations * argv.writes),
                     argv.reads + argv.writes)
    /\ WOPS = Mix(argv).WOPS
    /\ (argv.operations = 1000 /\ argv.reads = 7 /\ argv.writes = 3) =>
         (ROPS = Num(700) /\ WOPS = Num(300))

\* C18: the one-second tick leaves the table all-zero and has sent one
\* 'trans' to every worker live at that moment and nothing else to anyone
\* (none to an exited worker, no job, whatever jobs are in flight); and the
\* record handed to stats.interval at a flush is the fold of the reports
\* folded since the most recent reset, so nothing folded before the most
\* recent tick is in it.
C18_TickResetsThenProbes ==
  [][ /\ Tick =>
           /\ interval_stats' = ZeroTable
           /\ folded' = <<>>
           /\ \A w \in Ids :
                /\ Sent(workers'[w]) =
                     <<workers[w].sentRun, workers[w].sentQuery,
                       workers[w].sentTrans
                         + (IF w \in Live(workers) THEN 1 ELSE 0),
                       workers[w].sentEnd>>
                /\ workers'[w].iteration = workers[w].iteration
                /\ workers'[w].inflight = workers[w].inflight
      /\ Flushed => interval_stats' = FoldAll(ZeroTable, folded') ]_vars

\* a flush after a tick, of fewer reports than were folded in all, with one
\* worker exited and so not probed by the tick
C18_Witness ==
  /\ ticks > 0 /\ sink.interval > 0 /\ FlushDue(counter)
  /\ Len(folded) > 0 /\ Len(folded) < counter
  /\ interval_stats = FoldAll(ZeroTable, folded)
  /\ \E w \in Ids : workers[w].state = "exited"

\* C19: a running worker that has been sent 'end' is never sent a 'run' or
\* a 'query' afterwards, whatever it reports.
C19_NoJobAfterEnd ==
  [][ \A w \in Ids :
        (workers[w].state = "online" /\ workers[w].sentEnd > 0) =>
          /\ workers'[w].sentRun <= workers[w].sentRun
          /\ workers'[w].sentQuery <= workers[w].sentQuery ]_vars

\* every read/write slot was filled and every ReadWrite worker has exited
\* with status 0, which it does after the 'end' that follows its last job
ReadWriteDone ==
  /\ rwOnline = Max(rwWorkers, 0)
  /\ \A w \in Ids :
       workers[w].role = "ReadWrite" =>
         (workers[w].state = "exited" /\ workers[w].status = 0)

\* C20: with cooperative workers the master eventually exits with status 0,
\* in iteration-limit mode after each ReadWrite worker has completed its
\* limit of jobs, in duration mode after the duration timer has fired.
C20_TerminatesWhenDone ==
  <>( /\ pc = "exited" /\ exitCode = 0
      /\ IterationMode => ReadWriteDone
      /\ argv.time # Undefined => timer = "fired" )

=============================================================================
